---- MODULE Spec2Model ----
(***************************************************************************)
(* Model of the VA combined-rating calculator of src/app.py                *)
(* (calculate_combined_rating, lines 1267-1293).                           *)
(*                                                                         *)
(* The running total `combined` is a Python float from the first loop      *)
(* step on.  It is modelled as an exact reduced fraction [n, d]: every     *)
(* value the model's inputs produce has at most four significant decimal   *)
(* digits, and on these inputs the float computation takes the same        *)
(* rounding decisions as the exact one (ties included, which are exactly   *)
(* representable).  Float representation error below that is not modelled. *)
(***************************************************************************)
EXTENDS Integers, Sequences, FiniteSets, TLC

\* the locals of one call of calculate_combined_rating
VARIABLES pc, individual_ratings, sorted_ratings, combined, i, rounded, result

\* the module-level compensation table
VARIABLES VA_COMPENSATION_RATES

\* one call of validate_and_enrich_analysis: its two arguments (analysis is
\* updated in place), its position, the scenario names the loop has yet to
\* visit, whether the except clause was taken, and the analysis as passed in
VARIABLES analysis, veteran_info, vpc, todo, raised, llm_analysis

\* the requests the threaded server handles at the same time: per thread, the
\* locals of its call of calculate_combined_rating and the amount it looks up
VARIABLES frames

\* one call of calculate_combined_rating on ratings of any magnitude: an
\* entry is [huge |-> FALSE, v |-> the integer], or [huge |-> TRUE, v |-> sign]
\* for an integer of that sign beyond the range of a float (such as 10**400)
VARIABLES huge_call

\* one request in process_va_records: the handler's position, its inputs
\* (what request.json, the download and the model call give) and its locals
VARIABLES handler

call_vars == <<pc, individual_ratings, sorted_ratings, combined, i, rounded, result>>

enrich_vars == <<analysis, veteran_info, vpc, todo, raised, llm_analysis>>

thread_vars == <<frames>>

huge_vars == <<huge_call>>

handler_vars == <<handler>>

vars == <<call_vars, VA_COMPENSATION_RATES, enrich_vars, thread_vars, huge_vars, handler_vars>>

(***************************************************************************)
(* Bounds of the model.                                                    *)
(***************************************************************************)
MaxLen == 3

\* The eleven rating tiers of the schedule, and the values a caller may
\* pass beyond them (negative, overlarge).
Tiers == {0, 10, 20, 30, 40, 50, 60, 70, 80, 90, 100}

Malformed == {-10, 200, 300}

Values == Tiers \cup Malformed

RECURSIVE SeqsUpTo(_)
SeqsUpTo(k) ==
    IF k = 0 THEN {<<>>}
    ELSE LET shorter == SeqsUpTo(k - 1)
         IN  shorter \cup {Append(s, v) : s \in {t \in shorter : Len(t) = k - 1}, v \in Values}

Inputs == SeqsUpTo(MaxLen)

(***************************************************************************)
(* Exact fractions standing for Python's int and float values.             *)
(***************************************************************************)
Abs(x) == IF x < 0 THEN -x ELSE x

RECURSIVE GCD(_, _)
GCD(a, b) == IF b = 0 THEN a ELSE GCD(b, a % b)

\* the reduced fraction n/d, d > 0
Frac(n, d) ==
    LET g == GCD(Abs(n), d)
    IN  IF n = 0 THEN [n |-> 0, d |-> 1] ELSE [n |-> n \div g, d |-> d \div g]

FromInt(k) == [n |-> k, d |-> 1]

FAdd(x, y) == Frac(x.n * y.d + y.n * x.d, x.d * y.d)

FSub(x, y) == Frac(x.n * y.d - y.n * x.d, x.d * y.d)

\* x * k and x / k for an integer k (k > 0 for the division)
FMulInt(x, k) == Frac(x.n * k, x.d)

FDivInt(x, k) ==
    LET g == GCD(Abs(x.n), k)
    IN  Frac(x.n \div g, x.d * (k \div g))

FLess(x, y) == x.n * y.d < y.n * x.d

FLeq(x, y) == x.n * y.d <= y.n * x.d

Min(a, b) == IF a <= b THEN a ELSE b

(***************************************************************************)
(* Python dicts are functions from their keys; a value that is not a dict  *)
(* (a JSON string or number) is a record with the single field py_type.    *)
(***************************************************************************)
EmptyDict == [k \in {} |-> 0]

IsDict(v) == "py_type" \notin DOMAIN v

\* d.get(k, default)
DictGet(d, k, default) == IF k \in DOMAIN d THEN d[k] ELSE default

\* d[k] = v
DictSet(d, k, v) == [x \in DOMAIN d \cup {k} |-> IF x = k THEN v ELSE d[x]]

\* d.update(e)
DictUpdate(d, e) == [x \in DOMAIN d \cup DOMAIN e |-> IF x \in DOMAIN e THEN e[x] ELSE d[x]]

\* 2025 VA Compensation Rates, as the module sets them at import
CompensationTable_NoZeroRow ==
    (0 :> 171) @@ (10 :> 338) @@ (20 :> 524) @@ (30 :> 755) @@ (40 :> 1075) @@ (50 :> 1361)
    @@ (60 :> 1716) @@ (70 :> 1995) @@ (80 :> 2241) @@ (90 :> 3737) @@ (100 :> 3737)

CompensationTable_Dip ==
    (0 :> 0) @@ (10 :> 171) @@ (20 :> 338) @@ (30 :> 524) @@ (40 :> 755) @@ (50 :> 1075)
    @@ (60 :> 1361) @@ (70 :> 1716) @@ (80 :> 1995) @@ (90 :> 2241) @@ (100 :> 737)

CompensationTable ==
    (0 :> 0) @@ (10 :> 171) @@ (20 :> 338) @@ (30 :> 524) @@ (40 :> 755) @@ (50 :> 1075)
    @@ (60 :> 1361) @@ (70 :> 1716) @@ (80 :> 1995) @@ (90 :> 2241) @@ (100 :> 3737)

\* VA_COMPENSATION_RATES.get(rating, 0)
CompensationFor_Interpolated(table, rating) ==
    LET lower == {k \in DOMAIN table : k <= rating}
    IN  IF lower = {} THEN 0
        ELSE table[CHOOSE k \in lower : \A x \in lower : x <= k]

CompensationFor(table, rating) == DictGet(table, rating, 0)

(***************************************************************************)
(* calculate_combined_rating, piece by piece.                              *)
(***************************************************************************)

\* [r for r in individual_ratings if r > 0]
PositiveRatings_Below100(s) == SelectSeq(s, LAMBDA r : r > 0 /\ r < 100)

PositiveRatings_WithZero(s) == SelectSeq(s, LAMBDA r : r >= 0)

PositiveRatings_NonZero(s) == SelectSeq(s, LAMBDA r : r # 0)

PositiveRatings(s) == SelectSeq(s, LAMBDA r : r > 0)

\* sorted(..., reverse=True)
RECURSIVE InsertDesc(_, _)
InsertDesc(x, s) ==
    IF s = <<>> THEN <<x>>
    ELSE IF x >= Head(s) THEN <<x>> \o s
    ELSE <<Head(s)>> \o InsertDesc(x, Tail(s))

RECURSIVE SortedDesc(_)
SortedDesc(s) == IF s = <<>> THEN <<>> ELSE InsertDesc(Head(s), SortedDesc(Tail(s)))

SortedRatings(s) == SortedDesc(PositiveRatings(s))

\* combined = sorted_ratings[0]
FirstRating_Unsorted(ratings, sorted) == FromInt(ratings[1])

FirstRating(ratings, sorted) == FromInt(sorted[1])

\* combined = combined + (rating * (100 - combined) / 100)
CombineStep_Additive(c, rating) == FAdd(c, FromInt(rating))

CombineStep_WrongOperand(c, rating) ==
    FAdd(c, FDivInt(FMulInt(FSub(FromInt(100), FromInt(rating)), rating), 100))

CombineStep(c, rating) ==
    FAdd(c, FDivInt(FMulInt(FSub(FromInt(100), c), rating), 100))

\* Python 3 round(): to the nearest integer, a tie to the even neighbour
PyRound_Trunc(x) == x.n \div x.d

PyRound_HalfDown(x) ==
    LET fl  == x.n \div x.d
        rem == x.n - fl * x.d
    IN  IF 2 * rem <= x.d THEN fl ELSE fl + 1

PyRound(x) ==
    LET fl  == x.n \div x.d
        rem == x.n - fl * x.d
    IN  IF 2 * rem < x.d THEN fl
        ELSE IF 2 * rem > x.d THEN fl + 1
        ELSE IF fl % 2 = 0 THEN fl ELSE fl + 1

\* rounded = round(combined / 10) * 10
RoundToTen(c) == PyRound(FDivInt(c, 10)) * 10

\* if rounded >= 95: return 100 / else: return min(rounded, 100)
ReturnValue_NoClamp(r) == r

ReturnValue(r) == IF r >= 95 THEN 100 ELSE Min(r, 100)

\* the for loop over sorted_ratings[1:], from position k on
RECURSIVE CombineFrom(_, _, _)
CombineFrom(c, sorted, k) ==
    IF k > Len(sorted) THEN c
    ELSE CombineFrom(CombineStep(c, sorted[k]), sorted, k + 1)

\* the running total after the loop, for a non-empty sorted list
CombinedTotal(ratings) ==
    LET sorted == SortedRatings(ratings)
    IN  CombineFrom(FirstRating(ratings, sorted), sorted, 2)

\* the function as a whole
calculate_combined_rating(ratings) ==
    IF ratings = <<>> THEN 0
    ELSE IF SortedRatings(ratings) = <<>> THEN 0
    ELSE ReturnValue(RoundToTen(CombinedTotal(ratings)))

(***************************************************************************)
(* Requests served concurrently (app.run(threaded=True)): every thread     *)
(* runs calculate_combined_rating on its own argument, statement by        *)
(* statement, and then looks the result up in the shared table.            *)
(***************************************************************************)
Threads == {"t1", "t2", "t3"}

ThreadInputs ==
    {<<>>, <<50, 30>>, <<70, 50, 30>>, <<30, 70, 10>>, <<200, 300>>, <<-10, 100>>}

\* the frame of a call that is about to execute its first statement
NewFrame(ratings) ==
    [pc |-> "start", individual_ratings |-> ratings, sorted_ratings |-> <<>>,
     combined |-> FromInt(0), i |-> 0, rounded |-> 0, result |-> 0,
     monthly_compensation |-> 0]

\* the frame after the next statement of calculate_combined_rating
FrameStep(f) ==
    CASE f.pc = "start" ->
            IF f.individual_ratings = <<>>
            THEN [f EXCEPT !.result = 0, !.pc = "lookup"]
            ELSE [f EXCEPT !.pc = "filter"]
      [] f.pc = "filter" ->
            LET sorted == SortedRatings(f.individual_ratings)
            IN  IF sorted = <<>>
                THEN [f EXCEPT !.sorted_ratings = sorted, !.result = 0, !.pc = "lookup"]
                ELSE [f EXCEPT !.sorted_ratings = sorted, !.pc = "first"]
      [] f.pc = "first" ->
            [f EXCEPT !.combined = FirstRating(f.individual_ratings, f.sorted_ratings),
                      !.i = 2, !.pc = "loop"]
      [] f.pc = "loop" ->
            IF f.i <= Len(f.sorted_ratings)
            THEN [f EXCEPT !.combined = CombineStep(f.combined, f.sorted_ratings[f.i]),
                           !.i = f.i + 1]
            ELSE [f EXCEPT !.rounded = RoundToTen(f.combined), !.pc = "return"]
      [] f.pc = "return" ->
            [f EXCEPT !.result = ReturnValue(f.rounded), !.pc = "lookup"]

\* the locals of a call live in the frame of that call
StoreFrame_SharedTotal(fr, t, f) ==
    [u \in DOMAIN fr |-> IF u = t THEN f ELSE [fr[u] EXCEPT !.combined = f.combined]]

StoreFrame(fr, t, f) == [fr EXCEPT ![t] = f]

NoThreads == frames = [t \in Threads |-> NewFrame(<<>>)]

(***************************************************************************)
(* Ratings of any magnitude.  Python integers are unbounded, floats are    *)
(* not: the true division of an integer whose quotient lies beyond the     *)
(* range of a float raises OverflowError.  calculate_combined_rating has   *)
(* no try block, so the exception leaves the call.                         *)
(***************************************************************************)
Small(k) == [huge |-> FALSE, v |-> k]

HugeEntries ==
    {Small(-10), Small(50), Small(100), [huge |-> TRUE, v |-> 1], [huge |-> TRUE, v |-> -1]}

RECURSIVE EntrySeqsUpTo(_)
EntrySeqsUpTo(k) ==
    IF k = 0 THEN {<<>>}
    ELSE LET shorter == EntrySeqsUpTo(k - 1)
         IN  shorter \cup {Append(s, e) : s \in {t \in shorter : Len(t) = k - 1}, e \in HugeEntries}

HugeInputs == EntrySeqsUpTo(MaxLen)

\* r > 0
PositiveEntries(s) == SelectSeq(s, LAMBDA e : e.v > 0)

\* a >= b, for positive entries
EntryGeq(a, b) == IF a.huge THEN TRUE ELSE IF b.huge THEN FALSE ELSE a.v >= b.v

RECURSIVE InsertEntryDesc(_, _)
InsertEntryDesc(x, s) ==
    IF s = <<>> THEN <<x>>
    ELSE IF EntryGeq(x, Head(s)) THEN <<x>> \o s
    ELSE <<Head(s)>> \o InsertEntryDesc(x, Tail(s))

RECURSIVE SortedEntriesDesc(_)
SortedEntriesDesc(s) ==
    IF s = <<>> THEN <<>> ELSE InsertEntryDesc(Head(s), SortedEntriesDesc(Tail(s)))

\* the integers of a sequence of entries none of which is huge
EntryValues(s) == [k \in 1..Len(s) |-> s[k].v]

NewHugeCall(ratings) ==
    [pc |-> "start", individual_ratings |-> ratings, sorted_ratings |-> <<>>,
     frame |-> NewFrame(<<>>)]

NoHugeCall == huge_call = NewHugeCall(<<>>)

(***************************************************************************)
(* process_va_records (lines 516-580) and the functions it calls.  A JSON  *)
(* string is the record Str(s); a call gives [raised, value]: the value it *)
(* returns, or raised = TRUE when an exception leaves it.                  *)
(***************************************************************************)
Str(s) == [py_type |-> "str", s |-> s]

IsStr(v) == ~IsDict(v) /\ v.py_type = "str"

Returns(v) == [raised |-> FALSE, value |-> v]

Raises(exception) == [raised |-> TRUE, value |-> Str(exception)]

\* the objects a webhook may post
WebhookPayloads ==
    {[name                       |-> Str("John-Doe_john@example.com.pdf"),
      event_by_user_email_id     |-> Str("uploader@example.com"),
      event_by_user_display_name |-> Str("Uploader"),
      download_url               |-> Str("https://workdrive/download/1"),
      id                         |-> Str("abcdefghijkl"),
      type                       |-> Str("pdf"),
      webhook_event              |-> Str("file_uploaded")],
     [name |-> Str("records.txt"), download_url |-> Str("https://workdrive/download/2")],
     EmptyDict,
     [name |-> [py_type |-> "int"], event_by_user_display_name |-> Str("Uploader")]}

\* what request.json gives: an object, None (the body null), a list, or
\* BadRequest on every access (a body that is not JSON)
RequestBodies ==
    {[json |-> "object", data |-> d] : d \in WebhookPayloads}
    \cup {[json |-> j, data |-> [py_type |-> j]] : j \in {"NoneType", "list", "BadRequest"}}

\* requests.get: status 200, status 200 with undecodable content, another
\* status, or an exception
HttpOutcomes == {"200", "200_binary", "404", "raises"}

\* the JSON values a model response may hold
PipelineResponses ==
    {EmptyDict,
     [combined_rating_scenarios |->
          [current_calculation |-> [individual_ratings |-> <<50, 30>>, combined_rating |-> 73],
           realistic_scenario  |-> [individual_ratings |-> <<100>>, combined_rating |-> 73]],
      executive_summary |-> [key_findings |-> "text", potential_combined_rating |-> 73]],
     [combined_rating_scenarios |-> [current_calculation |-> [py_type |-> "str"]]],
     [executive_summary |-> [py_type |-> "str"]],
     [sections |-> [py_type |-> "int"]],
     [py_type |-> "list"]}

\* anthropic_client.messages.create and json.loads: an exception, text that
\* is not JSON, or a JSON value
LlmOutcomes ==
    {[llm |-> o, response |-> EmptyDict] : o \in {"raises", "not_json"}}
    \cup {[llm |-> "json", response |-> r] : r \in PipelineResponses}

\* name_part.split('_') for the file names of the model, extensions removed
NameParts(file_name) ==
    CASE file_name = "John-Doe_john@example.com.pdf" -> <<"John-Doe", "john@example.com">>
      [] file_name = "unknown_file"                  -> <<"unknown", "file">>
      [] OTHER                                       -> <<"records">>

\* parts[0].replace('-', ' ').replace('%20', ' ').title()
TitleCase(part) == IF part = "John-Doe" THEN "John Doe" ELSE "Unknown"

\* '@' in parts[1]
HasAt(part) == part = "john@example.com"

\* f"VAR-{date}-{file_id[:8]}"
ReportId(file_id) ==
    IF file_id = "abcdefghijkl" THEN "VAR-20250101-abcdefgh" ELSE "VAR-20250101-"

\* lines 582-636: the except branch is taken when a string method is called
\* on a value that is not a string
extract_veteran_info_from_webhook(webhook_data) ==
    LET file_name           == DictGet(webhook_data, "name", Str("unknown_file"))
        client_email        == DictGet(webhook_data, "event_by_user_email_id", Str("unknown@email.com"))
        client_display_name == DictGet(webhook_data, "event_by_user_display_name", Str("Unknown User"))
        download_url        == DictGet(webhook_data, "download_url", Str(""))
        file_id             == DictGet(webhook_data, "id", Str(""))
        parts               == NameParts(file_name.s)
    IN  IF IsStr(file_name) /\ IsStr(file_id)
        THEN [name           |-> IF Len(parts) > 1 THEN Str(TitleCase(parts[1])) ELSE client_display_name,
              email          |-> IF Len(parts) > 1 /\ HasAt(parts[2]) THEN Str(parts[2]) ELSE client_email,
              filename       |-> file_name,
              download_url   |-> download_url,
              file_id        |-> file_id,
              file_size      |-> DictGet(webhook_data, "storage_info_size", Str("unknown")),
              file_type      |-> DictGet(webhook_data, "type", Str("unknown")),
              uploaded_time  |-> DictGet(webhook_data, "uploaded_time", Str("01/01/2025")),
              uploader_email |-> client_email,
              uploader_name  |-> client_display_name,
              date           |-> Str("01012025"),
              report_id      |-> Str(ReportId(file_id.s))]
        ELSE [name           |-> DictGet(webhook_data, "event_by_user_display_name", Str("Unknown Veteran")),
              email          |-> DictGet(webhook_data, "event_by_user_email_id", Str("unknown@email.com")),
              filename       |-> DictGet(webhook_data, "name", Str("unknown_file")),
              download_url   |-> DictGet(webhook_data, "download_url", Str("")),
              file_id        |-> DictGet(webhook_data, "id", Str("")),
              file_size      |-> DictGet(webhook_data, "storage_info_size", Str("unknown")),
              file_type      |-> DictGet(webhook_data, "type", Str("unknown")),
              uploaded_time  |-> DictGet(webhook_data, "uploaded_time", Str("")),
              uploader_email |-> DictGet(webhook_data, "event_by_user_email_id", Str("")),
              uploader_name  |-> DictGet(webhook_data, "event_by_user_display_name", Str("")),
              date           |-> Str("01012025"),
              report_id      |-> Str("VAR-20250101-120000")]

generate_sample_medical_records == Str("DEPARTMENT OF VETERANS AFFAIRS MEDICAL RECORD (sample)")

\* the except clause of the download, lines 660-663
DownloadExcept_Reraise == Raises("Exception")

DownloadExcept == Returns(generate_sample_medical_records)

\* lines 638-663
download_medical_records_from_workdrive(http) ==
    CASE http = "200"        -> Returns(Str("response.text"))
      [] http = "200_binary" -> Returns(Str("Binary file content - OCR processing needed"))
      [] OTHER               -> DownloadExcept

\* lines 1295-1350
generate_fallback_analysis_OldRates(v_info) ==
    [executive_summary |->
        [current_combined_rating        |-> 70,
         potential_combined_rating      |-> 90,
         current_monthly_compensation   |-> 1663,
         potential_monthly_compensation |-> 2172,
         monthly_increase_potential     |-> 509,
         annual_increase_potential      |-> 6108,
         total_conditions_analyzed      |-> 4,
         high_priority_opportunities    |-> 2,
         key_findings                   |-> "text"],
     current_service_connected_conditions |->
        <<[condition_name |-> "PTSD", current_rating |-> 50, potential_rating |-> 70]>>,
     missed_claiming_opportunities |->
        <<[condition_name |-> "Sleep Apnea", potential_rating |-> 50]>>,
     metadata |->
        [analysis_date |-> "now",
         veteran_name  |-> v_info.name,
         report_id     |-> v_info.report_id,
         ai_backend    |-> "Claude-3.5-Sonnet (Fallback)",
         rater_mode    |-> "Senior VA Claims Rater (GS-13)"]]

generate_fallback_analysis(v_info) ==
    [executive_summary |->
        [current_combined_rating        |-> 70,
         potential_combined_rating      |-> 90,
         current_monthly_compensation   |-> 1716,
         potential_monthly_compensation |-> 2241,
         monthly_increase_potential     |-> 525,
         annual_increase_potential      |-> 6300,
         total_conditions_analyzed      |-> 4,
         high_priority_opportunities    |-> 2,
         key_findings                   |-> "text"],
     current_service_connected_conditions |->
        <<[condition_name |-> "PTSD", current_rating |-> 50, potential_rating |-> 70]>>,
     missed_claiming_opportunities |->
        <<[condition_name |-> "Sleep Apnea", potential_rating |-> 50]>>,
     metadata |->
        [analysis_date |-> "now",
         veteran_name  |-> v_info.name,
         report_id     |-> v_info.report_id,
         ai_backend    |-> "Claude-3.5-Sonnet (Fallback)",
         rater_mode    |-> "Senior VA Claims Rater (GS-13)"]]

\* the two except clauses of the analysis, lines 1206-1213
AnalyzeExcept_Reraise(v_info) == Raises("Exception")

AnalyzeExcept(v_info) == Returns(generate_fallback_analysis(v_info))

\* the scenario keys the report renders, lines 1404-1409
ScenarioLabels ==
    {"current_calculation", "conservative_scenario", "realistic_scenario", "optimistic_scenario"}

\* lines 1352-2118: .get on an analysis, a rendered scenario or a summary
\* that is not a dict raises AttributeError; no try block
generate_comprehensive_html_report(analysis_result, v_info, medical_text) ==
    IF ~IsDict(analysis_result) THEN Raises("AttributeError")
    ELSE LET rating_scenarios == DictGet(analysis_result, "combined_rating_scenarios", EmptyDict)
             exec_summary     == DictGet(analysis_result, "executive_summary", EmptyDict)
         IN  IF \E k \in ScenarioLabels \cap DOMAIN rating_scenarios : ~IsDict(rating_scenarios[k])
             THEN Raises("AttributeError")
             ELSE IF ~IsDict(exec_summary) THEN Raises("AttributeError")
             ELSE Returns(Str("report_html"))

\* lines 2120-2137: the except clause returns a URL too
upload_report_to_workdrive(report_html, v_info) ==
    IF IsStr(v_info.name)
    THEN Returns(Str("https://workdrive.zoho.com/external/shared/va_senior_rater_analysis.html"))
    ELSE Returns(Str("https://workdrive.zoho.com/reports/error.html"))

\* lines 2139-2148
send_notification_email(v_info, report_url, analysis_result) ==
    IF IsDict(analysis_result) /\ IsDict(DictGet(analysis_result, "executive_summary", EmptyDict))
    THEN Returns(TRUE) ELSE Returns(FALSE)

\* lines 2150-2158
update_crm_record(v_info, analysis_result, report_url) ==
    IF IsDict(analysis_result) THEN Returns(TRUE) ELSE Returns(FALSE)

\* len(analysis_result.get('sections', [])) in the success response
AnalysisSections(analysis_result) ==
    IF ~IsDict(analysis_result) THEN Raises("AttributeError")
    ELSE IF "sections" \in DOMAIN analysis_result THEN Raises("TypeError")
    ELSE Returns(TRUE)

\* the statements of the try block, in program order
After_EmailBeforeUpload(statement) ==
    CASE statement = "request_json"  -> "webhook_event"
      [] statement = "webhook_event" -> "extract"
      [] statement = "extract"       -> "download"
      [] statement = "download"      -> "analyze"
      [] statement = "analyze"       -> "report"
      [] statement = "report"        -> "email"
      [] statement = "email"         -> "upload"
      [] statement = "upload"        -> "crm"
      [] statement = "crm"           -> "respond"
      [] OTHER                       -> "done"

After(statement) ==
    CASE statement = "request_json"  -> "webhook_event"
      [] statement = "webhook_event" -> "extract"
      [] statement = "extract"       -> "download"
      [] statement = "download"      -> "analyze"
      [] statement = "analyze"       -> "report"
      [] statement = "report"        -> "upload"
      [] statement = "upload"        -> "email"
      [] statement = "email"         -> "crm"
      [] statement = "crm"           -> "respond"
      [] OTHER                       -> "done"

None == [py_type |-> "NoneType"]

\* a response: the success field of its JSON body, its HTTP status, and
\* whether process_va_records returned it (or Flask made it from an
\* exception that left the function)
Response(success, status, from_handler) ==
    [success |-> success, status |-> status, from_handler |-> from_handler]

NoResponse == Response(FALSE, 0, FALSE)

NewRequest(body, http, llm) ==
    [pc              |-> "request_json",
     body            |-> body,
     http            |-> http,
     llm             |-> llm,
     webhook_data    |-> None,
     webhook_event   |-> None,
     veteran_info    |-> EmptyDict,
     medical_text    |-> None,
     analysis_result |-> None,
     report_html     |-> None,
     report_url      |-> None,
     steps           |-> <<>>,
     error           |-> None,
     response        |-> NoResponse]

\* no request is being handled
NoRequest ==
    handler = [NewRequest([json |-> "NoneType", data |-> None], "200",
                          [llm |-> "raises", response |-> EmptyDict])
               EXCEPT !.pc = "idle"]

(***************************************************************************)
(* The call as a state machine: one action per statement.                  *)
(***************************************************************************)
\* no call of validate_and_enrich_analysis is in progress
NoEnrichCall ==
    /\ analysis = EmptyDict
    /\ veteran_info = EmptyDict
    /\ llm_analysis = EmptyDict
    /\ vpc = "idle"
    /\ todo = {}
    /\ raised = FALSE

Init ==
    /\ individual_ratings \in Inputs
    /\ pc = "start"
    /\ sorted_ratings = <<>>
    /\ combined = FromInt(0)
    /\ i = 0
    /\ rounded = 0
    /\ result = 0
    /\ VA_COMPENSATION_RATES = CompensationTable
    /\ NoEnrichCall
    /\ NoThreads
    /\ NoHugeCall
    /\ NoRequest

\* if not individual_ratings: return 0
CheckEmpty ==
    /\ pc = "start"
    /\ IF individual_ratings = <<>>
       THEN /\ result' = 0
            /\ pc' = "done"
       ELSE /\ result' = result
            /\ pc' = "filter"
    /\ UNCHANGED <<individual_ratings, sorted_ratings, combined, i, rounded>>
    /\ UNCHANGED <<VA_COMPENSATION_RATES, enrich_vars, thread_vars, huge_vars, handler_vars>>

\* sorted_ratings = sorted([...], reverse=True); if not sorted_ratings: return 0
FilterSort ==
    /\ pc = "filter"
    /\ sorted_ratings' = SortedRatings(individual_ratings)
    /\ IF sorted_ratings' = <<>>
       THEN /\ result' = 0
            /\ pc' = "done"
       ELSE /\ result' = result
            /\ pc' = "first"
    /\ UNCHANGED <<individual_ratings, combined, i, rounded>>
    /\ UNCHANGED <<VA_COMPENSATION_RATES, enrich_vars, thread_vars, huge_vars, handler_vars>>

\* combined = sorted_ratings[0]; the loop then starts at the second element
StartCombined ==
    /\ pc = "first"
    /\ combined' = FirstRating(individual_ratings, sorted_ratings)
    /\ i' = 2
    /\ pc' = "loop"
    /\ UNCHANGED <<individual_ratings, sorted_ratings, rounded, result>>
    /\ UNCHANGED <<VA_COMPENSATION_RATES, enrich_vars, thread_vars, huge_vars, handler_vars>>

\* one iteration of: for rating in sorted_ratings[1:]
LoopStep ==
    /\ pc = "loop"
    /\ i <= Len(sorted_ratings)
    /\ combined' = CombineStep(combined, sorted_ratings[i])
    /\ i' = i + 1
    /\ UNCHANGED <<pc, individual_ratings, sorted_ratings, rounded, result>>
    /\ UNCHANGED <<VA_COMPENSATION_RATES, enrich_vars, thread_vars, huge_vars, handler_vars>>

\* the loop is exhausted: rounded = round(combined / 10) * 10
Round ==
    /\ pc = "loop"
    /\ i > Len(sorted_ratings)
    /\ rounded' = RoundToTen(combined)
    /\ pc' = "return"
    /\ UNCHANGED <<individual_ratings, sorted_ratings, combined, i, result>>
    /\ UNCHANGED <<VA_COMPENSATION_RATES, enrich_vars, thread_vars, huge_vars, handler_vars>>

\* the final if / else
Return ==
    /\ pc = "return"
    /\ result' = ReturnValue(rounded)
    /\ pc' = "done"
    /\ UNCHANGED <<individual_ratings, sorted_ratings, combined, i, rounded>>
    /\ UNCHANGED <<VA_COMPENSATION_RATES, enrich_vars, thread_vars, huge_vars, handler_vars>>

Next ==
    \/ CheckEmpty
    \/ FilterSort
    \/ StartCombined
    \/ LoopStep
    \/ Round
    \/ Return

Spec == Init /\ [][Next]_vars

TypeOK ==
    /\ pc \in {"start", "filter", "first", "loop", "return", "done"}
    /\ individual_ratings \in Inputs
    /\ combined.d > 0
    /\ i \in 0..(MaxLen + 1)
    /\ rounded \in Int
    /\ result \in Int

\* the call returned after running the loop and the rounding
Returned == pc = "done" /\ sorted_ratings # <<>>

(***************************************************************************)
(* validate_and_enrich_analysis(analysis, veteran_info), lines 1215-1265.  *)
(* The whole body is inside one try; any exception ends the call at the    *)
(* except clause, which returns analysis as it then is.                    *)
(***************************************************************************)
RequiredSections ==
    {"executive_summary", "current_service_connected_conditions",
     "missed_claiming_opportunities", "combined_rating_scenarios",
     "strategic_action_plan", "evidence_gaps_analysis"}

\* the lists, ratings and amounts a model response may carry
LlmRatingLists == {<<>>, <<60>>, <<100>>, <<50, 30>>, <<200, 300>>, <<-10, 0>>}

LlmRatings == {60, 100, 73, 150}

LlmAmounts == {999}

NotADict == {[py_type |-> "str"], [py_type |-> "int"]}

\* what may stand under one scenario name
LlmScenarios ==
    {[individual_ratings |-> l, combined_rating |-> 73] : l \in LlmRatingLists}
    \cup {[individual_ratings |-> l, combined_rating |-> 73, monthly_compensation |-> m] :
             l \in LlmRatingLists, m \in LlmAmounts}
    \cup {[combined_rating |-> c] : c \in LlmRatings}
    \cup {[combined_rating |-> c, monthly_compensation |-> m] : c \in {60, 73}, m \in LlmAmounts}
    \cup {[individual_ratings |-> <<50, 30>>], EmptyDict}
    \cup NotADict

\* the scenario dicts: the two names the summary reads, each present or not,
\* and a further entry that the prompt template fills with text
LlmScenarioDicts ==
    {DictUpdate(DictUpdate(c, r), t) :
        c \in {EmptyDict} \cup {[current_calculation |-> v] : v \in LlmScenarios},
        r \in {EmptyDict} \cup {[realistic_scenario |-> v] : v \in LlmScenarios},
        t \in {EmptyDict} \cup {[tdiu_potential |-> v] : v \in NotADict}}

LlmSummaries ==
    {[key_findings |-> "text", potential_combined_rating |-> 73], [py_type |-> "str"]}

LlmAnalyses ==
    {DictUpdate(sc, su) :
        sc \in {EmptyDict} \cup {[combined_rating_scenarios |-> d] : d \in LlmScenarioDicts},
        su \in {EmptyDict} \cup {[executive_summary |-> e] : e \in LlmSummaries}}

VeteranInfos ==
    {[name |-> "veteran", report_id |-> "report"], [name |-> "veteran"]}

InitEnrich ==
    /\ llm_analysis \in LlmAnalyses
    /\ analysis = llm_analysis
    /\ veteran_info \in VeteranInfos
    /\ vpc = "sections"
    /\ todo = {}
    /\ raised = FALSE
    /\ VA_COMPENSATION_RATES = CompensationTable
    /\ pc = "done"
    /\ individual_ratings = <<>>
    /\ sorted_ratings = <<>>
    /\ combined = FromInt(0)
    /\ i = 0
    /\ rounded = 0
    /\ result = 0
    /\ NoThreads
    /\ NoHugeCall
    /\ NoRequest

\* (a handler that hands back the response as it came)
Raise_RollBack ==
    /\ raised' = TRUE
    /\ vpc' = "done"
    /\ analysis' = llm_analysis
    /\ UNCHANGED todo

\* except Exception: return analysis
Raise ==
    /\ raised' = TRUE
    /\ vpc' = "done"
    /\ UNCHANGED <<analysis, todo>>

\* for section in required_sections: if section not in analysis: analysis[section] = {}
\* (on a list, a string or a number the first `in` or item assignment raises
\* TypeError before anything is written)
EnsureSections ==
    /\ vpc = "sections"
    /\ IF IsDict(analysis)
       THEN /\ analysis' = DictUpdate([sec \in RequiredSections |-> EmptyDict], analysis)
            /\ todo' = DOMAIN analysis'.combined_rating_scenarios
            /\ vpc' = "scenarios"
            /\ UNCHANGED raised
       ELSE Raise
    /\ UNCHANGED <<veteran_info, llm_analysis, VA_COMPENSATION_RATES, call_vars, thread_vars, huge_vars, handler_vars>>

\* the scenario after lines 1234-1236
RecomputedScenario_KeepAmount(table, scenario) ==
    DictUpdate(scenario,
        [combined_rating |-> calculate_combined_rating(scenario.individual_ratings)])

RecomputedScenario(table, scenario) ==
    LET calculated_rating == calculate_combined_rating(scenario.individual_ratings)
    IN  DictUpdate(scenario,
            [combined_rating      |-> calculated_rating,
             monthly_compensation |-> CompensationFor(table, calculated_rating)])

\* one iteration of: for scenario_name, scenario in scenarios.items()
\* (`in` raises TypeError on a number, and is a substring test on a string)
VisitScenario_SetDefault(scenario_name) ==
    /\ vpc = "scenarios"
    /\ scenario_name \in todo
    /\ LET scenarios == analysis.combined_rating_scenarios
           scenario  == scenarios[scenario_name]
       IN  IF ~IsDict(scenario)
           THEN IF scenario.py_type = "str"
                THEN /\ todo' = todo \ {scenario_name}
                     /\ UNCHANGED <<analysis, vpc, raised, VA_COMPENSATION_RATES>>
                ELSE Raise /\ UNCHANGED VA_COMPENSATION_RATES
           ELSE IF {"individual_ratings", "combined_rating"} \subseteq DOMAIN scenario
           THEN /\ analysis' = [analysis EXCEPT !.combined_rating_scenarios =
                                   DictSet(scenarios, scenario_name,
                                           RecomputedScenario(VA_COMPENSATION_RATES, scenario))]
                /\ VA_COMPENSATION_RATES' =
                       DictUpdate([k \in {calculate_combined_rating(scenario.individual_ratings)} |-> 0],
                                  VA_COMPENSATION_RATES)
                /\ todo' = todo \ {scenario_name}
                /\ UNCHANGED <<vpc, raised>>
           ELSE /\ todo' = todo \ {scenario_name}
                /\ UNCHANGED <<analysis, vpc, raised, VA_COMPENSATION_RATES>>
    /\ UNCHANGED <<veteran_info, llm_analysis, call_vars, thread_vars, huge_vars, handler_vars>>

VisitScenario_EitherField(scenario_name) ==
    /\ vpc = "scenarios"
    /\ scenario_name \in todo
    /\ LET scenarios == analysis.combined_rating_scenarios
           scenario  == scenarios[scenario_name]
       IN  IF ~IsDict(scenario)
           THEN IF scenario.py_type = "str"
                THEN /\ todo' = todo \ {scenario_name}
                     /\ UNCHANGED <<analysis, vpc, raised>>
                ELSE Raise
           ELSE IF "individual_ratings" \in DOMAIN scenario
           THEN /\ analysis' = [analysis EXCEPT !.combined_rating_scenarios =
                                   DictSet(scenarios, scenario_name,
                                           RecomputedScenario(VA_COMPENSATION_RATES, scenario))]
                /\ todo' = todo \ {scenario_name}
                /\ UNCHANGED <<vpc, raised>>
           ELSE /\ todo' = todo \ {scenario_name}
                /\ UNCHANGED <<analysis, vpc, raised>>
    /\ UNCHANGED <<veteran_info, llm_analysis, VA_COMPENSATION_RATES, call_vars, thread_vars, huge_vars, handler_vars>>

VisitScenario(scenario_name) ==
    /\ vpc = "scenarios"
    /\ scenario_name \in todo
    /\ LET scenarios == analysis.combined_rating_scenarios
           scenario  == scenarios[scenario_name]
       IN  IF ~IsDict(scenario)
           THEN IF scenario.py_type = "str"
                THEN /\ todo' = todo \ {scenario_name}
                     /\ UNCHANGED <<analysis, vpc, raised>>
                ELSE Raise
           ELSE IF {"individual_ratings", "combined_rating"} \subseteq DOMAIN scenario
           THEN /\ analysis' = [analysis EXCEPT !.combined_rating_scenarios =
                                   DictSet(scenarios, scenario_name,
                                           RecomputedScenario(VA_COMPENSATION_RATES, scenario))]
                /\ todo' = todo \ {scenario_name}
                /\ UNCHANGED <<vpc, raised>>
           ELSE /\ todo' = todo \ {scenario_name}
                /\ UNCHANGED <<analysis, vpc, raised>>
    /\ UNCHANGED <<veteran_info, llm_analysis, VA_COMPENSATION_RATES, call_vars, thread_vars, huge_vars, handler_vars>>

\* the dict passed to analysis['executive_summary'].update, lines 1243-1250
SummaryUpdate_WeeklyYear(table, current_rating, potential_rating) ==
    [current_combined_rating        |-> current_rating,
     potential_combined_rating      |-> potential_rating,
     current_monthly_compensation   |-> CompensationFor(table, current_rating),
     potential_monthly_compensation |-> CompensationFor(table, potential_rating),
     monthly_increase_potential     |->
         CompensationFor(table, potential_rating) - CompensationFor(table, current_rating),
     annual_increase_potential      |->
         (CompensationFor(table, potential_rating) - CompensationFor(table, current_rating)) * 52]

SummaryUpdate_CurrentTwice(table, current_rating, potential_rating) ==
    [current_combined_rating        |-> current_rating,
     potential_combined_rating      |-> current_rating,
     current_monthly_compensation   |-> CompensationFor(table, current_rating),
     potential_monthly_compensation |-> CompensationFor(table, current_rating),
     monthly_increase_potential     |->
         CompensationFor(table, potential_rating) - CompensationFor(table, current_rating),
     annual_increase_potential      |->
         (CompensationFor(table, potential_rating) - CompensationFor(table, current_rating)) * 12]

SummaryUpdate(table, current_rating, potential_rating) ==
    [current_combined_rating        |-> current_rating,
     potential_combined_rating      |-> potential_rating,
     current_monthly_compensation   |-> CompensationFor(table, current_rating),
     potential_monthly_compensation |-> CompensationFor(table, potential_rating),
     monthly_increase_potential     |->
         CompensationFor(table, potential_rating) - CompensationFor(table, current_rating),
     annual_increase_potential      |->
         (CompensationFor(table, potential_rating) - CompensationFor(table, current_rating)) * 12]

\* the loop is exhausted: update the executive summary
\* (.get on a scenario that is not a dict, or .update on a summary that is
\* not a dict, raises AttributeError before anything is written)
UpdateSummary ==
    /\ vpc = "scenarios"
    /\ todo = {}
    /\ LET scenarios == analysis.combined_rating_scenarios
           current   == DictGet(scenarios, "current_calculation", EmptyDict)
           realistic == DictGet(scenarios, "realistic_scenario", EmptyDict)
       IN  IF ~IsDict(current) \/ ~IsDict(realistic) \/ ~IsDict(analysis.executive_summary)
           THEN Raise
           ELSE /\ analysis' = [analysis EXCEPT !.executive_summary =
                                   DictUpdate(analysis.executive_summary,
                                       SummaryUpdate(VA_COMPENSATION_RATES,
                                                     DictGet(current, "combined_rating", 0),
                                                     DictGet(realistic, "combined_rating", 0)))]
                /\ vpc' = "metadata"
                /\ UNCHANGED <<todo, raised>>
    /\ UNCHANGED <<veteran_info, llm_analysis, VA_COMPENSATION_RATES, call_vars, thread_vars, huge_vars, handler_vars>>

\* analysis['metadata'] = {...}; return analysis
\* (veteran_info['report_id'] raises KeyError when the key is missing)
AddMetadata ==
    /\ vpc = "metadata"
    /\ IF {"name", "report_id"} \subseteq DOMAIN veteran_info
       THEN /\ analysis' = DictSet(analysis, "metadata",
                               [analysis_date |-> "now",
                                veteran_name  |-> veteran_info.name,
                                report_id     |-> veteran_info.report_id,
                                ai_backend    |-> "Claude-3.5-Sonnet",
                                rater_mode    |-> "Senior VA Claims Rater (GS-13)"])
            /\ vpc' = "done"
            /\ UNCHANGED <<todo, raised>>
       ELSE Raise
    /\ UNCHANGED <<veteran_info, llm_analysis, VA_COMPENSATION_RATES, call_vars, thread_vars, huge_vars, handler_vars>>

NextEnrich ==
    \/ EnsureSections
    \/ \E scenario_name \in todo : VisitScenario(scenario_name)
    \/ UpdateSummary
    \/ AddMetadata

SpecEnrich == InitEnrich /\ [][NextEnrich]_vars

\* the call returned from the try block, not from the except clause
Enriched == vpc = "done" /\ ~raised

(***************************************************************************)
(* The threaded server: any interleaving of the threads' statements.       *)
(***************************************************************************)
InitThreads ==
    /\ frames \in [Threads -> {NewFrame(r) : r \in ThreadInputs}]
    /\ VA_COMPENSATION_RATES = CompensationTable
    /\ NoEnrichCall
    /\ NoHugeCall
    /\ NoRequest
    /\ pc = "done"
    /\ individual_ratings = <<>>
    /\ sorted_ratings = <<>>
    /\ combined = FromInt(0)
    /\ i = 0
    /\ rounded = 0
    /\ result = 0

\* thread t executes its next statement of calculate_combined_rating
ThreadStep(t) ==
    /\ frames[t].pc \in {"start", "filter", "first", "loop", "return"}
    /\ frames' = StoreFrame(frames, t, FrameStep(frames[t]))
    /\ UNCHANGED <<VA_COMPENSATION_RATES, enrich_vars, call_vars, huge_vars, handler_vars>>

\* thread t looks its result up: VA_COMPENSATION_RATES.get(calculated_rating, 0)
ThreadLookup(t) ==
    /\ frames[t].pc = "lookup"
    /\ frames' = StoreFrame(frames, t,
                    [frames[t] EXCEPT
                        !.monthly_compensation = CompensationFor(VA_COMPENSATION_RATES, frames[t].result),
                        !.pc = "done"])
    /\ UNCHANGED <<VA_COMPENSATION_RATES, enrich_vars, call_vars, huge_vars, handler_vars>>

NextThreads ==
    \/ \E t \in Threads : ThreadStep(t)
    \/ \E t \in Threads : ThreadLookup(t)

SpecThreads == InitThreads /\ [][NextThreads]_vars

(***************************************************************************)
(* The call on ratings of any magnitude.                                   *)
(***************************************************************************)
InitHuge ==
    /\ huge_call \in {NewHugeCall(r) : r \in HugeInputs}
    /\ NoRequest
    /\ VA_COMPENSATION_RATES = CompensationTable
    /\ NoEnrichCall
    /\ NoThreads
    /\ pc = "done"
    /\ individual_ratings = <<>>
    /\ sorted_ratings = <<>>
    /\ combined = FromInt(0)
    /\ i = 0
    /\ rounded = 0
    /\ result = 0

HugeFrame == UNCHANGED <<VA_COMPENSATION_RATES, enrich_vars, call_vars, thread_vars, handler_vars>>

\* if not individual_ratings: return 0
HugeCheckEmpty ==
    /\ huge_call.pc = "start"
    /\ huge_call' = IF huge_call.individual_ratings = <<>>
                    THEN [huge_call EXCEPT !.pc = "done"]
                    ELSE [huge_call EXCEPT !.pc = "filter"]
    /\ HugeFrame

\* sorted_ratings = sorted([...], reverse=True); if not sorted_ratings: return 0
\* (comparing and sorting integers of any size is exact)
HugeFilterSort ==
    /\ huge_call.pc = "filter"
    /\ LET sorted == SortedEntriesDesc(PositiveEntries(huge_call.individual_ratings))
       IN  huge_call' =
               IF sorted = <<>>
               THEN [huge_call EXCEPT !.sorted_ratings = sorted, !.pc = "done"]
               ELSE IF sorted[1].huge
               THEN [huge_call EXCEPT !.sorted_ratings = sorted, !.pc = "first"]
               ELSE [huge_call EXCEPT
                        !.sorted_ratings = sorted,
                        !.pc = "small",
                        !.frame = [NewFrame(EntryValues(sorted)) EXCEPT
                                      !.sorted_ratings = EntryValues(sorted),
                                      !.pc = "first"]]
    /\ HugeFrame

\* no huge rating is left: the call goes on as it does on small integers
HugeSmallStep ==
    /\ huge_call.pc = "small"
    /\ LET f == FrameStep(huge_call.frame)
       IN  huge_call' = [huge_call EXCEPT
                            !.frame = f,
                            !.pc = IF f.pc = "lookup" THEN "done" ELSE "small"]
    /\ HugeFrame

\* combined = sorted_ratings[0], a huge integer
HugeStart ==
    /\ huge_call.pc = "first"
    /\ huge_call' = [huge_call EXCEPT
                        !.pc = IF Len(huge_call.sorted_ratings) >= 2 THEN "loop" ELSE "round"]
    /\ HugeFrame

\* rating * (100 - combined) / 100 with a huge combined: OverflowError
HugeLoopRaises ==
    /\ huge_call.pc = "loop"
    /\ huge_call' = [huge_call EXCEPT !.pc = "raised"]
    /\ HugeFrame

\* round(combined / 10) with a huge combined: OverflowError
HugeRoundRaises ==
    /\ huge_call.pc = "round"
    /\ huge_call' = [huge_call EXCEPT !.pc = "raised"]
    /\ HugeFrame

NextHuge ==
    \/ HugeCheckEmpty
    \/ HugeFilterSort
    \/ HugeSmallStep
    \/ HugeStart
    \/ HugeLoopRaises
    \/ HugeRoundRaises

SpecHuge == InitHuge /\ [][NextHuge]_vars

(***************************************************************************)
(* One request through process_va_records: one action per statement of the *)
(* try block, the statements of validate_and_enrich_analysis in between,   *)
(* and the except clause.                                                  *)
(***************************************************************************)
InitPipeline ==
    /\ handler \in {NewRequest(b, h, l) : b \in RequestBodies, h \in HttpOutcomes, l \in LlmOutcomes}
    /\ VA_COMPENSATION_RATES = CompensationTable
    /\ NoEnrichCall
    /\ NoThreads
    /\ NoHugeCall
    /\ pc = "done"
    /\ individual_ratings = <<>>
    /\ sorted_ratings = <<>>
    /\ combined = FromInt(0)
    /\ i = 0
    /\ rounded = 0
    /\ result = 0

PipelineFrame == UNCHANGED <<VA_COMPENSATION_RATES, call_vars, thread_vars, huge_vars>>

\* an exception raised in the try block passes control to the except clause
Except(h, exception) == [h EXCEPT !.pc = "except", !.error = exception]

\* webhook_data = request.json
RequestJson ==
    /\ handler.pc = "request_json"
    /\ handler' = IF handler.body.json = "BadRequest"
                  THEN Except(handler, Str("BadRequest"))
                  ELSE [handler EXCEPT !.webhook_data = handler.body.data,
                                       !.pc = After("request_json")]
    /\ PipelineFrame
    /\ UNCHANGED enrich_vars

\* webhook_event = webhook_data.get('webhook_event', 'file_uploaded')
WebhookEvent ==
    /\ handler.pc = "webhook_event"
    /\ handler' = IF ~IsDict(handler.webhook_data)
                  THEN Except(handler, Str("AttributeError"))
                  ELSE [handler EXCEPT
                           !.webhook_event = DictGet(handler.webhook_data, "webhook_event",
                                                     Str("file_uploaded")),
                           !.pc = After("webhook_event")]
    /\ PipelineFrame
    /\ UNCHANGED enrich_vars

\* veteran_info = extract_veteran_info_from_webhook(webhook_data)
ExtractVeteranInfo ==
    /\ handler.pc = "extract"
    /\ handler' = [handler EXCEPT
                      !.veteran_info = extract_veteran_info_from_webhook(handler.webhook_data),
                      !.steps = Append(@, "extract"),
                      !.pc = After("extract")]
    /\ PipelineFrame
    /\ UNCHANGED enrich_vars

\* Step 1: medical_text = download_medical_records_from_workdrive(...)
Download ==
    /\ handler.pc = "download"
    /\ LET call == download_medical_records_from_workdrive(handler.http)
           h    == [handler EXCEPT !.steps = Append(@, "download")]
       IN  handler' = IF call.raised THEN Except(h, call.value)
                      ELSE [h EXCEPT !.medical_text = call.value, !.pc = After("download")]
    /\ PipelineFrame
    /\ UNCHANGED enrich_vars

\* Step 2, when the model call raises or json.loads fails: an except clause
\* of analyze_medical_records_with_claude gives the result
AnalyzeFails ==
    /\ handler.pc = "analyze"
    /\ handler.llm.llm \in {"raises", "not_json"}
    /\ LET call == AnalyzeExcept(handler.veteran_info)
           h    == [handler EXCEPT !.steps = Append(@, "analyze")]
       IN  handler' = IF call.raised THEN Except(h, call.value)
                      ELSE [h EXCEPT !.analysis_result = call.value, !.pc = After("analyze")]
    /\ PipelineFrame
    /\ UNCHANGED enrich_vars

\* Step 2, when json.loads gives a value: validate_and_enrich_analysis is
\* called on it
AnalyzeValidates ==
    /\ handler.pc = "analyze"
    /\ handler.llm.llm = "json"
    /\ handler' = [handler EXCEPT !.steps = Append(@, "analyze"), !.pc = "validate"]
    /\ llm_analysis' = handler.llm.response
    /\ analysis' = handler.llm.response
    /\ veteran_info' = handler.veteran_info
    /\ vpc' = "sections"
    /\ todo' = {}
    /\ raised' = FALSE
    /\ PipelineFrame

\* validate_and_enrich_analysis returned: return analysis_result
ValidateReturns ==
    /\ handler.pc = "validate"
    /\ vpc = "done"
    /\ handler' = [handler EXCEPT !.analysis_result = analysis, !.pc = After("analyze")]
    /\ PipelineFrame
    /\ UNCHANGED enrich_vars

\* Step 3: report_html = generate_comprehensive_html_report(...)
GenerateReport ==
    /\ handler.pc = "report"
    /\ LET call == generate_comprehensive_html_report(handler.analysis_result,
                                                     handler.veteran_info, handler.medical_text)
           h    == [handler EXCEPT !.steps = Append(@, "report")]
       IN  handler' = IF call.raised THEN Except(h, call.value)
                      ELSE [h EXCEPT !.report_html = call.value, !.pc = After("report")]
    /\ PipelineFrame
    /\ UNCHANGED enrich_vars

\* Step 4: report_url = upload_report_to_workdrive(report_html, veteran_info)
Upload ==
    /\ handler.pc = "upload"
    /\ LET call == upload_report_to_workdrive(handler.report_html, handler.veteran_info)
           h    == [handler EXCEPT !.steps = Append(@, "upload")]
       IN  handler' = IF call.raised THEN Except(h, call.value)
                      ELSE [h EXCEPT !.report_url = call.value, !.pc = After("upload")]
    /\ PipelineFrame
    /\ UNCHANGED enrich_vars

\* Step 5: send_notification_email(veteran_info, report_url, analysis_result)
Email ==
    /\ handler.pc = "email"
    /\ LET call == send_notification_email(handler.veteran_info, handler.report_url,
                                          handler.analysis_result)
           h    == [handler EXCEPT !.steps = Append(@, "email")]
       IN  handler' = IF call.raised THEN Except(h, call.value)
                      ELSE [h EXCEPT !.pc = After("email")]
    /\ PipelineFrame
    /\ UNCHANGED enrich_vars

\* Step 6: update_crm_record(veteran_info, analysis_result, report_url)
UpdateCrm ==
    /\ handler.pc = "crm"
    /\ LET call == update_crm_record(handler.veteran_info, handler.analysis_result,
                                    handler.report_url)
           h    == [handler EXCEPT !.steps = Append(@, "crm")]
       IN  handler' = IF call.raised THEN Except(h, call.value)
                      ELSE [h EXCEPT !.pc = After("crm")]
    /\ PipelineFrame
    /\ UNCHANGED enrich_vars

\* return jsonify({'success': True, ...})
Respond ==
    /\ handler.pc = "respond"
    /\ LET call == AnalysisSections(handler.analysis_result)
       IN  handler' = IF call.raised THEN Except(handler, call.value)
                      ELSE [handler EXCEPT !.response = Response(TRUE, 200, TRUE),
                                           !.pc = After("respond")]
    /\ PipelineFrame
    /\ UNCHANGED enrich_vars

\* except Exception as e: return jsonify({'success': False, ...,
\* 'webhook_received': bool(request.json), ...}), 500
\* (request.json is read again: when it raised BadRequest in the try block it
\* raises it here too, the exception leaves the function and Flask answers
\* with the HTTP error, status 400)
ExceptClause ==
    /\ handler.pc = "except"
    /\ handler' = IF handler.body.json = "BadRequest"
                  THEN [handler EXCEPT !.response = Response(FALSE, 400, FALSE),
                                       !.pc = "escaped"]
                  ELSE [handler EXCEPT !.response = Response(FALSE, 500, TRUE),
                                       !.pc = "done"]
    /\ PipelineFrame
    /\ UNCHANGED enrich_vars

NextPipeline ==
    \/ RequestJson
    \/ WebhookEvent
    \/ ExtractVeteranInfo
    \/ Download
    \/ AnalyzeFails
    \/ AnalyzeValidates
    \/ EnsureSections
    \/ \E scenario_name \in todo : VisitScenario(scenario_name)
    \/ UpdateSummary
    \/ AddMetadata
    \/ ValidateReturns
    \/ GenerateReport
    \/ Upload
    \/ Email
    \/ UpdateCrm
    \/ Respond
    \/ ExceptClause

SpecPipeline == InitPipeline /\ [][NextPipeline]_vars

(***************************************************************************)
(* Vocabulary of the properties.                                           *)
(***************************************************************************)
FMul(x, y) == Frac(x.n * y.n, x.d * y.d)

Elems(s) == {s[k] : k \in 1..Len(s)}

\* every entry is one of the tiers 10..100
ValidTiers(s) == Elems(s) \subseteq (Tiers \ {0})

AllNonPositive(s) == \A k \in 1..Len(s) : s[k] <= 0

\* c / 10 has fractional part one half
IsHalfway(c) == c.d = 1 /\ c.n % 10 = 5

\* the loop has processed every element of sorted_ratings
LoopFinished ==
    \/ pc = "loop" /\ i > Len(sorted_ratings)
    \/ pc = "return"
    \/ Returned

\* the rearrangements of a sequence
PermutationsOf(s) ==
    {[k \in 1..Len(s) |-> s[f[k]]] : f \in Permutations(1..Len(s))}

\* 100 - 100 * Product_i (1 - r_i / 100)
RECURSIVE RemainingEfficiency(_)
RemainingEfficiency(s) ==
    IF s = <<>> THEN FromInt(1)
    ELSE FMul(Frac(100 - Head(s), 100), RemainingEfficiency(Tail(s)))

ReferenceTotal(s) == FSub(FromInt(100), FMulInt(RemainingEfficiency(s), 100))

(***************************************************************************)
(* C1: when the final running total is exactly halfway between two         *)
(* multiples of 10 (65, 85, ...), the call returns the higher multiple     *)
(* (round-half-up).  The code rounds a tie to the even multiple instead.   *)
(***************************************************************************)
C1_RoundHalfUp ==
    (Returned /\ ValidTiers(individual_ratings) /\ IsHalfway(combined))
        => result = combined.n + 5

(***************************************************************************)
(* C2: for every integer sequence the returned value is one of             *)
(* 0, 10, ..., 100.  Two overlarge entries drive the total negative.       *)
(***************************************************************************)
C2_ResultIsTier == pc = "done" => result \in Tiers

(***************************************************************************)
(* C3: the returned value is never greater than 100, also when entries     *)
(* are above 100.                                                          *)
(***************************************************************************)
C3_NeverAbove100 == pc = "done" => result <= 100

C3_Witness ==
    /\ Returned
    /\ \E k \in 1..Len(individual_ratings) : individual_ratings[k] > 100
    /\ FLess(FromInt(100), combined)
    /\ result = 100

(***************************************************************************)
(* C4: monotonicity - appending any rating r > 0 to the sequence never     *)
(* gives a smaller result than the sequence itself.                        *)
(***************************************************************************)
C4_Monotone ==
    pc = "done" =>
        \A r \in {v \in Values : v > 0} :
            calculate_combined_rating(Append(individual_ratings, r)) >= result

(***************************************************************************)
(* C5: order independence - every permutation of the input sequence        *)
(* gives the result the sequence itself gives.                             *)
(***************************************************************************)
C5_OrderIndependent ==
    pc = "done" =>
        \A p \in PermutationsOf(individual_ratings) :
            calculate_combined_rating(p) = result

C5_Witness ==
    /\ Returned
    /\ Len(individual_ratings) = 3
    /\ individual_ratings # sorted_ratings
    /\ individual_ratings = <<30, 70, 10>>
    /\ result = calculate_combined_rating(<<70, 30, 10>>)

(***************************************************************************)
(* C6: for valid tiers the running total is the remaining-efficiency       *)
(* value 100 - 100 * Product (1 - r/100): after each loop step over the    *)
(* ratings processed so far (largest first), and before rounding over the  *)
(* whole input.                                                            *)
(***************************************************************************)
C6_RemainingEfficiency ==
    (ValidTiers(individual_ratings) /\ individual_ratings # <<>>) =>
        /\ (pc = "loop" \/ LoopFinished) =>
              /\ combined = ReferenceTotal(SubSeq(sorted_ratings, 1, i - 1))
              /\ \A k \in 1..Len(sorted_ratings) : sorted_ratings[1] >= sorted_ratings[k]
        /\ LoopFinished => combined = ReferenceTotal(individual_ratings)

C6_Witness ==
    /\ pc = "return"
    /\ ValidTiers(individual_ratings)
    /\ Len(individual_ratings) = 3
    /\ combined.d > 1
    /\ combined = ReferenceTotal(individual_ratings)

(***************************************************************************)
(* C7: the reference examples [50,30,10] -> 70, [70,30,10] -> 80,          *)
(* [70,50,30] -> 90, [100,50,30] -> 100 are reproduced, and they are the   *)
(* scenario values of the prompt template.                                 *)
(***************************************************************************)
\* combined_rating_scenarios of the prompt template
PromptScenarios ==
    { [individual_ratings |-> <<50, 30, 10>>,  combined_rating |-> 70,  monthly_compensation |-> 1716],
      [individual_ratings |-> <<70, 30, 10>>,  combined_rating |-> 80,  monthly_compensation |-> 1995],
      [individual_ratings |-> <<70, 50, 30>>,  combined_rating |-> 90,  monthly_compensation |-> 2241],
      [individual_ratings |-> <<100, 50, 30>>, combined_rating |-> 100, monthly_compensation |-> 3737] }

ReferenceExamples ==
    { <<(<<50, 30, 10>>), 70>>, <<(<<70, 30, 10>>), 80>>,
      <<(<<70, 50, 30>>), 90>>, <<(<<100, 50, 30>>), 100>> }

C7_ReferenceExamples ==
    /\ {<<sc.individual_ratings, sc.combined_rating>> : sc \in PromptScenarios} = ReferenceExamples
    /\ pc = "done" =>
          \A e \in ReferenceExamples : individual_ratings = e[1] => result = e[2]

C7_Witness ==
    /\ pc = "done"
    /\ individual_ratings = <<70, 50, 30>>
    /\ result = 90

(***************************************************************************)
(* C8: ceiling rule - a total >= 95 returns exactly 100; a total below 95  *)
(* returns a multiple of 10 nearest to the total (at most 5 away), which   *)
(* is at most 100.                                                         *)
(***************************************************************************)
C8_CeilingRule ==
    Returned =>
        /\ FLeq(FromInt(95), combined) => result = 100
        /\ FLess(combined, FromInt(95)) =>
              /\ result % 10 = 0
              /\ FLeq(FSub(combined, FromInt(5)), FromInt(result))
              /\ FLeq(FromInt(result), FAdd(combined, FromInt(5)))
              /\ result <= 100

C8_Witness ==
    /\ Returned
    /\ combined = FromInt(95)
    /\ rounded = 100
    /\ result = 100

C10_NoPositiveGivesZero ==
    AllNonPositive(individual_ratings) =>
        /\ pc \in {"start", "filter", "done"}
        /\ pc = "done" => (result = 0 /\ i = 0 /\ sorted_ratings = <<>>)

C10_Witness ==
    /\ pc = "done"
    /\ individual_ratings # <<>>
    /\ AllNonPositive(individual_ratings)
    /\ result = 0

(***************************************************************************)
(* C11: a single rating combines to itself - for every tier r in           *)
(* {0,10,...,100} the call on [r] returns r.                               *)
(***************************************************************************)
C11_SingleRating ==
    (pc = "done" /\ Len(individual_ratings) = 1 /\ individual_ratings[1] \in Tiers)
        => result = individual_ratings[1]

C11_Witness ==
    /\ Returned
    /\ individual_ratings = <<100>>
    /\ result = 100

(***************************************************************************)
(* C12: entries <= 0 contribute nothing - the result of a sequence is the  *)
(* result of the sequence with its entries <= 0 removed.                   *)
(***************************************************************************)
WithoutNonPositive(s) == SelectSeq(s, LAMBDA r : ~(r <= 0))

C12_NonPositiveIgnored ==
    pc = "done" =>
        result = calculate_combined_rating(WithoutNonPositive(individual_ratings))

C12_Witness ==
    /\ Returned
    /\ \E k \in 1..Len(individual_ratings) : individual_ratings[k] = 0
    /\ \E k \in 1..Len(individual_ratings) : individual_ratings[k] < 0
    /\ WithoutNonPositive(individual_ratings) # individual_ratings
    /\ result = calculate_combined_rating(WithoutNonPositive(individual_ratings))
    /\ result > 0

(***************************************************************************)
(* C13: the call is total - for every finite sequence of integers it       *)
(* returns an integer and never raises.  A positive rating beyond the      *)
(* range of a float is kept by the filter and makes the first division     *)
(* raise OverflowError.                                                    *)
(***************************************************************************)
C13_NeverRaises ==
    /\ huge_call.pc # "raised"
    /\ huge_call.pc = "done" => huge_call.frame.result \in Int

(***************************************************************************)
(* What holds of the call on ratings within the float range: at every      *)
(* position the statement to execute is defined (sorted_ratings[0] is read *)
(* only from a non-empty list, the loop index stays inside the list),      *)
(* every step brings the return nearer, so the call returns after at most  *)
(* len(individual_ratings) + 4 steps, and at the return every positive     *)
(* rating has been taken exactly once (the first as the start value, each  *)
(* other one in one loop step) and the result is an integer.               *)
(***************************************************************************)
NumPositive(s) == Cardinality({k \in 1..Len(s) : s[k] > 0})

\* the number of statements still to execute
StepsLeft ==
    CASE pc = "start"  -> Len(individual_ratings) + 4
      [] pc = "filter" -> Len(individual_ratings) + 3
      [] pc = "first"  -> Len(sorted_ratings) + 2
      [] pc = "loop"   -> Len(sorted_ratings) + 3 - i
      [] pc = "return" -> 1
      [] pc = "done"   -> 0

CallTerminates ==
    /\ [](pc \in {"start", "filter", "first", "loop", "return", "done"})
    /\ [](pc = "first" => sorted_ratings # <<>>)
    /\ [](pc = "loop" => i \in 2..(Len(sorted_ratings) + 1))
    /\ [](StepsLeft \in 0..(Len(individual_ratings) + 4))
    /\ [][StepsLeft' < StepsLeft]_vars
    /\ [][i' # i => (i' = i + 1 \/ (i = 0 /\ i' = 2))]_vars
    /\ [](pc = "done" =>
            /\ result \in Int
            /\ Len(sorted_ratings) = NumPositive(individual_ratings)
            /\ i = IF sorted_ratings = <<>> THEN 0 ELSE NumPositive(individual_ratings) + 1)

CallTerminates_Witness ==
    /\ Returned
    /\ Len(individual_ratings) = 3
    /\ NumPositive(individual_ratings) = 2
    /\ i = 3

(***************************************************************************)
(* C19: the descending sort is not needed - for valid tiers, applying the  *)
(* step in exact arithmetic to the ratings in any order, starting from the *)
(* first of that order, gives the total and the rounded result that the    *)
(* descending order gives.                                                 *)
(***************************************************************************)
TotalInOrder(p) == CombineFrom(FromInt(p[1]), p, 2)

C19_SortNotNeeded ==
    (LoopFinished /\ ValidTiers(individual_ratings)) =>
        \A p \in PermutationsOf(individual_ratings) :
            /\ TotalInOrder(p) = combined
            /\ pc = "done" => ReturnValue(RoundToTen(TotalInOrder(p))) = result

C19_Witness ==
    /\ Returned
    /\ ValidTiers(individual_ratings)
    /\ Len(individual_ratings) = 3
    /\ individual_ratings[1] < individual_ratings[2]
    /\ individual_ratings[2] < individual_ratings[3]
    /\ TotalInOrder(individual_ratings) = combined

(***************************************************************************)
(* Vocabulary of the properties about the compensation table and the      *)
(* enrichment.                                                             *)
(***************************************************************************)
\* the amount the table of the source lists for a canonical rating, else 0
ExpectedAmount(k) ==
    CASE k = 0   -> 0
      [] k = 10  -> 171
      [] k = 20  -> 338
      [] k = 30  -> 524
      [] k = 40  -> 755
      [] k = 50  -> 1075
      [] k = 60  -> 1361
      [] k = 70  -> 1716
      [] k = 80  -> 1995
      [] k = 90  -> 2241
      [] k = 100 -> 3737
      [] OTHER   -> 0

\* the scenario entries the loop has already visited
Visited ==
    IF vpc \in {"scenarios", "metadata", "done"}
    THEN DOMAIN analysis.combined_rating_scenarios \ todo
    ELSE {}

HasBothFields(scenario) ==
    IsDict(scenario) /\ {"individual_ratings", "combined_rating"} \subseteq DOMAIN scenario

\* the visited entries that the loop recomputed
Recomputed ==
    {n \in Visited : HasBothFields(analysis.combined_rating_scenarios[n])}

(***************************************************************************)
(* C14: the lookup VA_COMPENSATION_RATES.get(k, 0) gives the table amount  *)
(* for the eleven canonical ratings and 0 for every other integer (73,     *)
(* negative, above 100), without interpolating - at both places that look  *)
(* an amount up (the scenario loop and the executive summary).             *)
(***************************************************************************)
C14_LookupDefaultsToZero ==
    /\ \A n \in Recomputed :
          LET sc == analysis.combined_rating_scenarios[n]
          IN  sc.monthly_compensation = ExpectedAmount(sc.combined_rating)
    /\ Enriched =>
          LET su == analysis.executive_summary
          IN  /\ su.current_monthly_compensation = ExpectedAmount(su.current_combined_rating)
              /\ su.potential_monthly_compensation = ExpectedAmount(su.potential_combined_rating)
              /\ su.potential_combined_rating \notin Tiers => su.potential_monthly_compensation = 0

C14_Witness ==
    /\ Enriched
    /\ analysis.executive_summary.current_combined_rating < 0
    /\ analysis.executive_summary.current_monthly_compensation = 0
    /\ analysis.executive_summary.potential_combined_rating = 73
    /\ analysis.executive_summary.potential_monthly_compensation = 0

(***************************************************************************)
(* C15: the compensation table is constant - in every state it has the     *)
(* eleven keys 0, 10, ..., 100 with their initial amounts.                 *)
(***************************************************************************)
C15_TableConstant ==
    /\ DOMAIN VA_COMPENSATION_RATES = Tiers
    /\ Cardinality(DOMAIN VA_COMPENSATION_RATES) = 11
    /\ \A k \in Tiers : VA_COMPENSATION_RATES[k] = ExpectedAmount(k)

C15_Witness ==
    /\ Enriched
    /\ \E n \in Recomputed : analysis.combined_rating_scenarios[n].combined_rating \notin Tiers
    /\ analysis.executive_summary.potential_combined_rating \notin Tiers
    /\ DOMAIN VA_COMPENSATION_RATES = Tiers

(***************************************************************************)
(* C16: the summary's monthly_increase_potential is the potential amount   *)
(* minus the current amount and annual_increase_potential is 12 times it;  *)
(* current 60 and potential 100 give 1361, 3737, 2376 and 28512.           *)
(***************************************************************************)
C16_DerivedIncreases ==
    Enriched =>
        LET su == analysis.executive_summary
        IN  /\ su.monthly_increase_potential =
                   ExpectedAmount(su.potential_combined_rating)
                   - ExpectedAmount(su.current_combined_rating)
            /\ su.annual_increase_potential = 12 * su.monthly_increase_potential
            /\ (su.current_combined_rating = 60 /\ su.potential_combined_rating = 100) =>
                   /\ su.current_monthly_compensation = 1361
                   /\ su.potential_monthly_compensation = 3737
                   /\ su.monthly_increase_potential = 2376
                   /\ su.annual_increase_potential = 28512

C16_Witness ==
    /\ Enriched
    /\ analysis.executive_summary.current_combined_rating = 60
    /\ analysis.executive_summary.potential_combined_rating = 100
    /\ analysis.executive_summary.annual_increase_potential = 28512

(***************************************************************************)
(* C18: an input without a positive rating yields zero compensation - a    *)
(* recomputed scenario whose ratings are empty or all <= 0 gets combined   *)
(* rating 0 and monthly compensation 0.                                    *)
(***************************************************************************)
C18_NoPositiveNoCompensation ==
    \A n \in Recomputed :
        LET sc == analysis.combined_rating_scenarios[n]
        IN  AllNonPositive(sc.individual_ratings) =>
                /\ sc.combined_rating = 0
                /\ sc.monthly_compensation = 0

C18_Witness ==
    /\ "current_calculation" \in Recomputed
    /\ "realistic_scenario" \in Recomputed
    /\ analysis.combined_rating_scenarios.current_calculation.individual_ratings = <<>>
    /\ analysis.combined_rating_scenarios.realistic_scenario.individual_ratings = <<-10, 0>>
    /\ analysis.combined_rating_scenarios.current_calculation.monthly_compensation = 0
    /\ analysis.combined_rating_scenarios.realistic_scenario.monthly_compensation = 0

(***************************************************************************)
(* C20: scenarios are recomputed, not trusted - after a call that did not  *)
(* fail, every scenario with both individual_ratings and combined_rating   *)
(* carries the combined rating of its ratings and the table amount of that *)
(* rating (0 when it is no table key), whatever the response supplied.     *)
(***************************************************************************)
C20_ScenariosRecomputed ==
    Enriched =>
        \A n \in DOMAIN analysis.combined_rating_scenarios :
            LET sc == analysis.combined_rating_scenarios[n]
            IN  HasBothFields(sc) =>
                    /\ sc.combined_rating = calculate_combined_rating(sc.individual_ratings)
                    /\ "monthly_compensation" \in DOMAIN sc
                    /\ sc.monthly_compensation = ExpectedAmount(sc.combined_rating)
                    /\ sc.individual_ratings = llm_analysis.combined_rating_scenarios[n].individual_ratings

C20_Witness ==
    /\ Enriched
    /\ "combined_rating_scenarios" \in DOMAIN llm_analysis
    /\ {"current_calculation", "realistic_scenario"}
           \subseteq DOMAIN llm_analysis.combined_rating_scenarios
    /\ llm_analysis.combined_rating_scenarios.current_calculation =
           [individual_ratings |-> <<60>>, combined_rating |-> 73, monthly_compensation |-> 999]
    /\ analysis.combined_rating_scenarios.current_calculation =
           [individual_ratings |-> <<60>>, combined_rating |-> 60, monthly_compensation |-> 1361]
    /\ "individual_ratings" \notin DOMAIN analysis.combined_rating_scenarios.realistic_scenario

(***************************************************************************)
(* C17: concurrent invocations are independent - under every interleaving  *)
(* each thread's call passes through the states it passes through when it  *)
(* runs alone, and ends with the result and the amount of a call run       *)
(* alone.                                                                  *)
(***************************************************************************)
\* the frames of a call run alone, from frame f on
RECURSIVE AloneFrom(_)
AloneFrom(f) ==
    IF f.pc = "done" THEN {f}
    ELSE IF f.pc = "lookup"
    THEN {f} \cup AloneFrom([f EXCEPT !.monthly_compensation = ExpectedAmount(f.result),
                                      !.pc = "done"])
    ELSE {f} \cup AloneFrom(FrameStep(f))

C17_ThreadsIndependent ==
    \A t \in Threads :
        /\ frames[t] \in AloneFrom(NewFrame(frames[t].individual_ratings))
        /\ frames[t].pc = "done" =>
              /\ frames[t].result = calculate_combined_rating(frames[t].individual_ratings)
              /\ frames[t].monthly_compensation = ExpectedAmount(frames[t].result)

C17_Witness ==
    /\ frames["t1"].pc = "done"
    /\ frames["t1"].individual_ratings = <<70, 50, 30>>
    /\ frames["t1"].result = 90
    /\ frames["t1"].monthly_compensation = 2241
    /\ frames["t2"].pc = "loop"
    /\ frames["t2"].i = 3
    /\ frames["t2"].individual_ratings = <<30, 70, 10>>
    /\ frames["t3"].pc = "lookup"
    /\ frames["t3"].result = -100

(***************************************************************************)
(* C21: a scenario entry of the response that lacks individual_ratings or  *)
(* combined_rating is left as it came - in every state of the call it is   *)
(* the entry the response supplied, its combined_rating and                *)
(* monthly_compensation included.                                          *)
(***************************************************************************)
C21_OthersUnchanged ==
    "combined_rating_scenarios" \in DOMAIN llm_analysis =>
        \A n \in DOMAIN llm_analysis.combined_rating_scenarios :
            ~HasBothFields(llm_analysis.combined_rating_scenarios[n]) =>
                /\ n \in DOMAIN analysis.combined_rating_scenarios
                /\ analysis.combined_rating_scenarios[n] =
                       llm_analysis.combined_rating_scenarios[n]

C21_Witness ==
    /\ Enriched
    /\ "combined_rating_scenarios" \in DOMAIN llm_analysis
    /\ DOMAIN llm_analysis.combined_rating_scenarios =
           {"current_calculation", "realistic_scenario", "tdiu_potential"}
    /\ analysis.combined_rating_scenarios.current_calculation = [individual_ratings |-> <<50, 30>>]
    /\ analysis.combined_rating_scenarios.realistic_scenario =
           [combined_rating |-> 73, monthly_compensation |-> 999]
    /\ analysis.combined_rating_scenarios.tdiu_potential = [py_type |-> "str"]

(***************************************************************************)
(* C22: after a call that did not fail, the summary's                      *)
(* current_combined_rating is the combined_rating of scenario              *)
(* current_calculation and potential_combined_rating that of               *)
(* realistic_scenario (the recomputed value when the scenario was          *)
(* recomputed), each 0 when the scenario or the field is absent, and the   *)
(* two monthly amounts are the table amounts of these ratings.             *)
(***************************************************************************)
C22_SummaryFromScenarios ==
    Enriched =>
        LET scenarios == analysis.combined_rating_scenarios
            current   == DictGet(scenarios, "current_calculation", EmptyDict)
            realistic == DictGet(scenarios, "realistic_scenario", EmptyDict)
            su        == analysis.executive_summary
        IN  /\ su.current_combined_rating =
                   (IF "combined_rating" \in DOMAIN current THEN current.combined_rating ELSE 0)
            /\ su.potential_combined_rating =
                   (IF "combined_rating" \in DOMAIN realistic THEN realistic.combined_rating ELSE 0)
            /\ HasBothFields(current) =>
                   su.current_combined_rating = calculate_combined_rating(current.individual_ratings)
            /\ HasBothFields(realistic) =>
                   su.potential_combined_rating = calculate_combined_rating(realistic.individual_ratings)
            /\ su.current_monthly_compensation = ExpectedAmount(su.current_combined_rating)
            /\ su.potential_monthly_compensation = ExpectedAmount(su.potential_combined_rating)

C22_Witness ==
    /\ Enriched
    /\ "current_calculation" \notin DOMAIN analysis.combined_rating_scenarios
    /\ "realistic_scenario" \in DOMAIN analysis.combined_rating_scenarios
    /\ analysis.combined_rating_scenarios.realistic_scenario =
           [individual_ratings |-> <<100>>, combined_rating |-> 100, monthly_compensation |-> 3737]
    /\ analysis.executive_summary.current_combined_rating = 0
    /\ analysis.executive_summary.current_monthly_compensation = 0
    /\ analysis.executive_summary.potential_combined_rating = 100
    /\ analysis.executive_summary.potential_monthly_compensation = 3737

(***************************************************************************)
(* C23: the call never propagates an exception - a failure ends the call   *)
(* at once (the except clause returns), the failing step writes nothing,   *)
(* nothing is written after it, and what was written before it stays: the  *)
(* object returned is the analysis as it was when the step failed.         *)
(***************************************************************************)
C23_FailureReturnsAnalysis ==
    /\ [](raised => vpc = "done")
    /\ [][(raised' /\ ~raised) => analysis' = analysis]_vars
    /\ [][raised => (analysis' = analysis /\ raised' /\ vpc' = "done")]_vars
    /\ [](raised => "metadata" \notin DOMAIN analysis)
    /\ [](raised => \A sec \in DOMAIN llm_analysis : sec \in DOMAIN analysis)

\* the summary was updated, then veteran_info['report_id'] failed
C23_Witness ==
    /\ raised
    /\ vpc = "done"
    /\ "report_id" \notin DOMAIN veteran_info
    /\ "executive_summary" \notin DOMAIN llm_analysis
    /\ "potential_combined_rating" \in DOMAIN analysis.executive_summary
    /\ analysis.executive_summary.potential_combined_rating = 60
    /\ "realistic_scenario" \in DOMAIN analysis.combined_rating_scenarios
    /\ analysis.combined_rating_scenarios.realistic_scenario =
           [individual_ratings |-> <<50, 30>>, combined_rating |-> 60, monthly_compensation |-> 1361]
    /\ "metadata" \notin DOMAIN analysis

(***************************************************************************)
(* C28: the compensation table is strictly increasing in the rating, so    *)
(* when the summary's current and potential ratings are table keys and the *)
(* potential one is not below the current one, monthly_increase_potential  *)
(* and annual_increase_potential are >= 0.                                 *)
(***************************************************************************)
C28_IncreaseNonNegative ==
    /\ \A a, b \in DOMAIN VA_COMPENSATION_RATES :
          a < b => VA_COMPENSATION_RATES[a] < VA_COMPENSATION_RATES[b]
    /\ Enriched =>
          LET su == analysis.executive_summary
          IN  (/\ su.current_combined_rating \in DOMAIN VA_COMPENSATION_RATES
               /\ su.potential_combined_rating \in DOMAIN VA_COMPENSATION_RATES
               /\ su.potential_combined_rating >= su.current_combined_rating) =>
                  /\ su.monthly_increase_potential >= 0
                  /\ su.annual_increase_potential >= 0

C28_Witness ==
    /\ Enriched
    /\ analysis.executive_summary.current_combined_rating = 0
    /\ analysis.executive_summary.potential_combined_rating = 100
    /\ analysis.executive_summary.monthly_increase_potential = 3737
    /\ analysis.executive_summary.annual_increase_potential = 44844

(***************************************************************************)
(* C29: for ratings that are all valid tiers 10..100 the running total is  *)
(* within [0, 100] from its first assignment on, and no loop step makes it *)
(* smaller.                                                                *)
(***************************************************************************)
C29_TotalBoundedMonotone ==
    /\ []((ValidTiers(individual_ratings) /\ pc \in {"loop", "return"}) =>
              (FLeq(FromInt(0), combined) /\ FLeq(combined, FromInt(100))))
    /\ []((ValidTiers(individual_ratings) /\ pc = "done" /\ sorted_ratings # <<>>) =>
              (FLeq(FromInt(0), combined) /\ FLeq(combined, FromInt(100))))
    /\ [][(ValidTiers(individual_ratings) /\ pc = "loop" /\ i' = i + 1) =>
              FLeq(combined, combined')]_vars

C29_Witness ==
    /\ pc = "loop"
    /\ individual_ratings = <<30, 70, 50>>
    /\ i = 4
    /\ combined = Frac(179, 2)

(***************************************************************************)
(* Vocabulary of the properties about the webhook pipeline.                *)
(***************************************************************************)
\* the calls of a request that ran to the end, in the order of the claim
PipelineSteps == <<"extract", "download", "analyze", "report", "upload", "email", "crm">>

IsPrefix(s, t) == Len(s) <= Len(t) /\ \A k \in 1..Len(s) : s[k] = t[k]

Called(step) == step \in Elems(handler.steps)

\* the request is answered
Answered == handler.pc \in {"done", "escaped"}

DownloadFailed == handler.http \in {"404", "raises"}

LlmFailed == handler.llm.llm \in {"raises", "not_json"}

(***************************************************************************)
(* C24: the steps of a request run in one fixed order - extract, download, *)
(* analyze, report, upload, email, CRM; the email step starts only after   *)
(* the upload step has returned a report URL; a success response is        *)
(* returned only after all seven steps have run.                           *)
(***************************************************************************)
C24_FixedOrder ==
    /\ IsPrefix(handler.steps, PipelineSteps)
    /\ (handler.pc = "email" \/ Called("email")) =>
           (Called("upload") /\ IsStr(handler.report_url))
    /\ handler.response.success =>
           (handler.steps = PipelineSteps /\ handler.pc = "done")

C24_Witness ==
    /\ handler.pc = "done"
    /\ handler.response = Response(TRUE, 200, TRUE)
    /\ handler.steps = PipelineSteps
    /\ handler.llm.llm = "json"
    /\ "metadata" \in DOMAIN handler.analysis_result

C26_FallbackOnFailedAnalysis ==
    (LlmFailed /\ Called("analyze")) =>
        /\ handler.analysis_result = generate_fallback_analysis(handler.veteran_info)
        /\ vpc = "idle"
        /\ analysis = EmptyDict
        /\ handler.pc # "validate"
        /\ handler.pc = "report" \/ Called("report")

C26_Witness ==
    /\ handler.llm.llm = "not_json"
    /\ handler.pc = "report"
    /\ handler.steps = <<"extract", "download", "analyze">>
    /\ handler.analysis_result.metadata.ai_backend = "Claude-3.5-Sonnet (Fallback)"
    /\ handler.error = None

(***************************************************************************)
(* C27: the fallback analysis agrees with the compensation table and the   *)
(* derived-value rules - ratings 70 and 90 with the table amounts 1716 and *)
(* 2241, a monthly increase of their difference 525 and an annual increase *)
(* of 12 times that, 6300.                                                 *)
(***************************************************************************)
C27_FallbackMatchesTable ==
    (LlmFailed /\ Called("analyze")) =>
        LET su == handler.analysis_result.executive_summary
        IN  /\ su.current_combined_rating = 70
            /\ su.potential_combined_rating = 90
            /\ su.current_monthly_compensation = 1716
            /\ su.potential_monthly_compensation = 2241
            /\ su.current_monthly_compensation = VA_COMPENSATION_RATES[su.current_combined_rating]
            /\ su.potential_monthly_compensation = VA_COMPENSATION_RATES[su.potential_combined_rating]
            /\ su.monthly_increase_potential =
                   su.potential_monthly_compensation - su.current_monthly_compensation
            /\ su.monthly_increase_potential = 525
            /\ su.annual_increase_potential = 12 * su.monthly_increase_potential
            /\ su.annual_increase_potential = 6300
            /\ \A f \in DOMAIN SummaryUpdate(VA_COMPENSATION_RATES, 70, 90) :
                   su[f] = SummaryUpdate(VA_COMPENSATION_RATES, 70, 90)[f]

C27_Witness ==
    /\ handler.llm.llm = "raises"
    /\ handler.pc = "done"
    /\ handler.response.success
    /\ handler.analysis_result.executive_summary.annual_increase_potential = 6300

(***************************************************************************)
(* C30: every exception raised while the request is handled gives a        *)
(* response with success = false and status 500; no failure gives a        *)
(* success response and no exception leaves the handler.  When             *)
(* request.json raised, the except clause reads it again and the exception *)
(* leaves the handler.                                                     *)
(***************************************************************************)
C30_EveryFailureIs500 ==
    /\ handler.pc # "escaped"
    /\ (handler.error # None /\ Answered) => handler.response = Response(FALSE, 500, TRUE)
    /\ handler.response.success => handler.error = None

====
